---- MODULE Spec2Model ----
(***************************************************************************)
(* A model of the drivechat ingestion service: the schema bootstrap of     *)
(* DatabaseService.__init__, verify_tables, get_or_create_user,            *)
(* insert_document_with_embeddings and the upload_file entry point.        *)
(*                                                                         *)
(* The store is a catalog (the set of existing tables) plus the committed  *)
(* rows of users, items and embeddings.  Every store operation may fail    *)
(* (a connection or statement error): the failure is an input of the       *)
(* action, drawn from BOOLEAN.                                             *)
(***************************************************************************)
EXTENDS Integers, Sequences, FiniteSets, TLC

VARIABLES
    tables,      \* the store's catalog: the set of existing table names
    users,       \* committed rows of table users
    items,       \* committed rows of table items
    embeddings,  \* committed rows of table embeddings
    nextId,      \* source of generated row identifiers
    boot,        \* per service object: the position of its constructor
    cv,          \* a client calling verify_tables twice in a row
    usr,         \* per caller: the position of its get_or_create_user call
    att,         \* per ingestion attempt: its position and its session
    ef           \* a call of the embedding service: its position and its data

vars == <<tables, users, items, embeddings, nextId, boot, cv, usr, att, ef>>

storeVars == <<tables, users, items, embeddings>>

--------------------------------------------------------------------------
(* Bounds *)

\* the number of DatabaseService objects constructed in one run
MaxServices == 2

\* the largest number of chunks (nodes) of one document
MaxChunks == 2

--------------------------------------------------------------------------
(* Schema *)

\* verify_tables: the tables it looks up, in the order of its loop
RequiredTables == <<"users", "conversations", "items", "embeddings", "messages">>

\* a faulty CreateOrder: items is created before conversations
CreateOrderChildFirst == <<"users", "items", "conversations", "embeddings", "messages">>

\* __init__: the tables it creates, in the order of its list
CreateOrder == <<"users", "conversations", "items", "embeddings", "messages">>

\* Base.metadata: every mapped table, which drop_all drops
MetadataTables == {"users", "conversations", "items", "embeddings", "messages"}

\* the tables a table references, after the data model of the specification
\* (models/item.py declares no foreign key; the other models are elsewhere)
Parents(t) ==
    CASE t = "conversations" -> {"users"}
      [] t = "items" -> {"users", "conversations"}
      [] t = "embeddings" -> {"items"}
      [] t = "messages" -> {"conversations"}
      [] OTHER -> {}

Range(s) == {s[i] : i \in 1..Len(s)}

Services == 1..MaxServices

--------------------------------------------------------------------------
(* verify_tables *)

\* a faulty verify_tables_effect: the lookup creates the table it looks for
verify_tables_effect_creating(tbls, i) == tbls \cup {RequiredTables[i]}

\* the catalog after the i-th lookup of verify_tables: a SELECT changes nothing
verify_tables_effect(tbls, i) == tbls

\* a faulty verify_tables: the loop stops one table early
verify_tables_short(i, tbls, qfail) ==
    IF qfail THEN "false"
    ELSE IF RequiredTables[i] \notin tbls THEN "false"
    ELSE IF i >= Len(RequiredTables) - 1 THEN "true"
    ELSE "next"

\* One iteration of the loop of verify_tables, looking up table i in catalog
\* tbls; qfail: the connection or the query raises.  "next": go on with the
\* next table; "true", "false": the value returned.
verify_tables(i, tbls, qfail) ==
    IF qfail THEN "false"
    ELSE IF RequiredTables[i] \notin tbls THEN "false"
    ELSE IF i = Len(RequiredTables) THEN "true"
    ELSE "next"

--------------------------------------------------------------------------
(* DatabaseService.__init__ *)

BootIdle ==
    [pc |-> "idle", vi |-> 1, ci |-> 1, lastVerify |-> "none", qfailed |-> FALSE,
     dropped |-> FALSE, created |-> <<>>, session |-> FALSE,
     before |-> {}, rowsBefore |-> <<{}, {}, {}>>]

\* a constructor is between its first statement and its return or raise
Constructing(s) == boot[s].pc \in {"ext", "verify1", "drop", "create", "verify2"}

\* a store write happens: the client's pair of verify_tables calls sees it
NoteWrite == IF cv.pc \in {"call1", "call2"} THEN [cv EXCEPT !.wrote = TRUE] ELSE cv

\* DatabaseService(db_url) is called: main.py's module-level service, or one
\* more by get_db
DatabaseService_call(s) ==
    /\ boot[s].pc = "idle"
    /\ \A o \in Services : ~Constructing(o)
    /\ boot' = [boot EXCEPT ![s].pc = "ext", ![s].before = tables,
                            ![s].rowsBefore = <<users, items, embeddings>>]
    /\ UNCHANGED <<storeVars, nextId, cv, usr, att, ef>>

\* the service objects whose constructions may overlap: main.py's module-level
\* db_service and the one a get_db call constructs
Overlapping == {1, 2}

\* db = DatabaseService(os.getenv("DATABASE_URL")) in get_db, and db_service =
\* DatabaseService(DB_CONNECTION) in main.py: nothing makes a construction
\* wait for another one, so it may begin while another is under way
get_db(s) ==
    /\ s \in Overlapping
    /\ boot[s].pc = "idle"
    /\ boot' = [boot EXCEPT ![s].pc = "ext", ![s].before = tables,
                            ![s].rowsBefore = <<users, items, embeddings>>]
    /\ UNCHANGED <<storeVars, nextId, cv, usr, att, ef>>

\* CREATE EXTENSION IF NOT EXISTS vector; commit
DatabaseService_create_extension(s) ==
    /\ boot[s].pc = "ext"
    /\ \E fail \in BOOLEAN :
         boot' = [boot EXCEPT ![s].pc = IF fail THEN "raised" ELSE "verify1",
                              ![s].vi = 1]
    /\ UNCHANGED <<storeVars, nextId, cv, usr, att, ef>>

\* a faulty AfterVerify2: a failed second verification is only logged
AfterVerify2Lenient(out) == "ready"

\* __init__ after the second verify_tables: go on to the session, or raise
AfterVerify2(out) == IF out = "true" THEN "ready" ELSE "raised"

\* one lookup of a verify_tables call made by the constructor
DatabaseService_verify_tables(s) ==
    /\ boot[s].pc \in {"verify1", "verify2"}
    /\ \E qfail \in BOOLEAN :
         LET out == verify_tables(boot[s].vi, tables, qfail)
             first == boot[s].pc = "verify1"
         IN  /\ tables' = verify_tables_effect(tables, boot[s].vi)
             /\ boot' =
                  IF out = "next"
                  THEN [boot EXCEPT ![s].vi = @ + 1]
                  ELSE [boot EXCEPT
                          ![s].vi = 1,
                          ![s].lastVerify = out,
                          ![s].qfailed = qfail,
                          ![s].pc = IF first
                                    THEN (IF out = "true" THEN "verify2" ELSE "drop")
                                    ELSE AfterVerify2(out),
                          ![s].session = ~first /\ AfterVerify2(out) = "ready"]
    /\ UNCHANGED <<users, items, embeddings, nextId, cv, usr, att, ef>>

\* Base.metadata.drop_all(bind=self.engine): the tables go, and their rows
DatabaseService_drop_all(s) ==
    /\ boot[s].pc = "drop"
    /\ \E fail \in BOOLEAN :
         IF fail
         THEN /\ boot' = [boot EXCEPT ![s].pc = "raised"]
              /\ UNCHANGED <<storeVars, cv>>
         ELSE /\ tables' = tables \ MetadataTables
              /\ users' = {}
              /\ items' = {}
              /\ embeddings' = {}
              /\ cv' = NoteWrite
              /\ boot' = [boot EXCEPT ![s].pc = "create", ![s].ci = 1,
                                      ![s].dropped = TRUE]
    /\ UNCHANGED <<nextId, usr, att, ef>>

\* table.create(self.engine) for the next table of the list; it raises when
\* the store fails and when the table exists already
DatabaseService_create_table(s) ==
    /\ boot[s].pc = "create"
    /\ LET t == CreateOrder[boot[s].ci] IN
       \E fail \in BOOLEAN :
         IF fail \/ t \in tables
         THEN /\ boot' = [boot EXCEPT ![s].pc = "raised"]
              /\ UNCHANGED <<tables, cv>>
         ELSE /\ tables' = tables \cup {t}
              /\ cv' = NoteWrite
              /\ boot' = [boot EXCEPT
                            ![s].created = Append(@, t),
                            ![s].ci = @ + 1,
                            ![s].vi = 1,
                            ![s].pc = IF boot[s].ci = Len(CreateOrder)
                                      THEN "verify2" ELSE "create"]
    /\ UNCHANGED <<users, items, embeddings, nextId, usr, att, ef>>

--------------------------------------------------------------------------
(* A caller of verify_tables, twice in a row, on a constructed service *)

CvIdle ==
    [pc |-> "idle", vi |-> 1, r1 |-> "none", r2 |-> "none",
     qf1 |-> FALSE, qf2 |-> FALSE, wrote |-> FALSE, before |-> {}, after |-> {}]

verify_tables_call ==
    /\ cv.pc = "idle"
    /\ \E s \in Services : boot[s].session
    /\ cv' = [cv EXCEPT !.pc = "call1", !.vi = 1, !.before = tables]
    /\ UNCHANGED <<storeVars, nextId, boot, usr, att, ef>>

\* one lookup of the first or of the second call
verify_tables_lookup ==
    /\ cv.pc \in {"call1", "call2"}
    /\ \E qfail \in BOOLEAN :
         LET out == verify_tables(cv.vi, tables, qfail)
             first == cv.pc = "call1"
         IN  /\ tables' = verify_tables_effect(tables, cv.vi)
             /\ cv' =
                  IF out = "next"
                  THEN [cv EXCEPT !.vi = @ + 1]
                  ELSE IF first
                  THEN [cv EXCEPT !.vi = 1, !.r1 = out, !.qf1 = qfail, !.pc = "call2"]
                  ELSE [cv EXCEPT !.vi = 1, !.r2 = out, !.qf2 = qfail, !.pc = "done",
                                  !.after = tables']
    /\ UNCHANGED <<users, items, embeddings, nextId, boot, usr, att, ef>>

--------------------------------------------------------------------------
(* DatabaseService.get_or_create_user *)

\* An optional value is a sequence of no or of one element; a string is a
\* sequence of characters.
None == <<>>

Some(x) == <<x>>

\* a faulty SessionLocal: the call works on the service's long-lived session
SessionShared(call) == "self.session"

\* session = self.SessionLocal(): a new session, which belongs to the call;
\* "self.session" is the one the constructor opened
SessionLocal(call) == call

\* the owner keys the callers pass
Emails == {<<"a", "l", "@", "x">>, <<"b", "o">>}

\* the display names the callers pass: none, the empty string, a name
DisplayNames == {None, Some(<<>>), Some(<<"A", "l">>)}

Callers == {"c1", "c2"}

Min(S) == CHOOSE m \in S : \A x \in S : m <= x

\* email.split('@')[0]: the key up to its first '@', the whole key without one
LocalPart(email) ==
    LET ats == {i \in 1..Len(email) : email[i] = "@"}
    IN  IF ats = {} THEN email ELSE SubSeq(email, 1, Min(ats) - 1)

\* display_name or email.split('@')[0]: None and "" are both falsy
DefaultName(email, display_name) ==
    IF display_name = None \/ display_name[1] = <<>>
    THEN LocalPart(email)
    ELSE display_name[1]

\* users.email carries a uniqueness constraint
EmailUnique == TRUE

UsrIdle ==
    [pc |-> "idle", email |-> <<>>, display_name |-> None, result |-> None,
     storeFailed |-> FALSE, sess |-> "none", session |-> "none", tx |-> "none"]

\* get_or_create_user(email, display_name) is called; SessionLocal() opens the
\* call's own session
get_or_create_user_call(c) ==
    /\ usr[c].pc = "idle"
    /\ \E e \in Emails, d \in DisplayNames :
         usr' = [usr EXCEPT ![c].pc = "query", ![c].email = e, ![c].display_name = d,
                            ![c].sess = SessionLocal(c), ![c].session = "open"]
    /\ UNCHANGED <<storeVars, nextId, boot, cv, att, ef>>

\* session.query(User).filter(User.email == email).first(): a row is returned
\* as it is; with none the call goes on to create one; a failure raises, after
\* rollback and close.  The query begins the session's transaction; on the
\* return of a row that was found, session.close() ends it (nothing was written).
get_or_create_user_query(c) ==
    /\ usr[c].pc = "query"
    /\ \E fail \in BOOLEAN :
         LET found == {u \in users : u.email = usr[c].email} IN
         IF fail \/ "users" \notin tables
         THEN usr' = [usr EXCEPT ![c].pc = "raised", ![c].storeFailed = TRUE,
                                 ![c].tx = "rolledback", ![c].session = "closed"]
         ELSE IF found # {}
         THEN \E u \in found :
                usr' = [usr EXCEPT ![c].pc = "returned", ![c].result = Some(u),
                                   ![c].tx = "rolledback", ![c].session = "closed"]
         ELSE usr' = [usr EXCEPT ![c].pc = "insert", ![c].tx = "active"]
    /\ UNCHANGED <<storeVars, nextId, boot, cv, att, ef>>

\* a faulty CommitUser: the row is added to the session, never committed
CommitUserForgotten(rows, u) == rows

\* session.add(user); session.commit(): the row is in the table
CommitUser(rows, u) == rows \cup {u}

\* User(...); session.add(user); session.commit(); return user.  The insert
\* fails when the store fails and when the email is taken; then rollback,
\* close, and the exception is raised again, twice.
get_or_create_user_create(c) ==
    /\ usr[c].pc = "insert"
    /\ \E fail \in BOOLEAN :
         LET u == [id |-> nextId, email |-> usr[c].email,
                   display_name |-> DefaultName(usr[c].email, usr[c].display_name),
                   active |-> TRUE]
             taken == EmailUnique /\ \E o \in users : o.email = u.email
         IN  IF fail \/ "users" \notin tables
             THEN /\ usr' = [usr EXCEPT ![c].pc = "raised", ![c].storeFailed = TRUE,
                                      ![c].tx = "rolledback", ![c].session = "closed"]
                  /\ UNCHANGED <<users, nextId>>
             ELSE IF taken
             THEN /\ usr' = [usr EXCEPT ![c].pc = "raised",
                                      ![c].tx = "rolledback", ![c].session = "closed"]
                  /\ UNCHANGED <<users, nextId>>
             ELSE /\ users' = CommitUser(users, u)
                  /\ nextId' = nextId + 1
                  /\ usr' = [usr EXCEPT ![c].pc = "returned", ![c].result = Some(u),
                                      ![c].tx = "committed", ![c].session = "closed"]
    /\ UNCHANGED <<tables, items, embeddings, boot, cv, att, ef>>


--------------------------------------------------------------------------
(* DatabaseService.insert_document_with_embeddings *)

Attempts == {"a1", "a2"}

\* the rows of the conversations table, which another service writes: the
\* conversation k1 of the user u1 exists, no conversation k2 does
Conversations == {[id |-> "k1", user_id |-> "u1"]}

\* the conversation exists and belongs to the owner
ConversationOf(owner_id, conversation_id) ==
    \E c \in Conversations : c.id = conversation_id /\ c.user_id = owner_id

\* the owner and the conversation a call is made for
CallPairs == {[owner |-> "u1", conv |-> "k1"], [owner |-> "u2", conv |-> "k2"]}

\* the nodes a document is made of: a chunk text and, in extra_info, no
\* page_label, a numeric one, or one that is no number
NodeValues ==
    {[text |-> "t1", page_label |-> None],
     [text |-> "t2", page_label |-> Some(<<"1", "2">>)],
     [text |-> "t3", page_label |-> Some(<<"i", "v">>)]}

SeqsUpTo(S, n) == UNION {[1..m -> S] : m \in 0..n}

NodeSeqs == SeqsUpTo(NodeValues, MaxChunks)

Digits == <<"0", "1", "2", "3", "4", "5", "6", "7", "8", "9">>

IsNumber(str) ==
    /\ str # <<>>
    /\ \A i \in 1..Len(str) : str[i] \in Range(Digits)

DigitValue(ch) == (CHOOSE i \in 1..Len(Digits) : Digits[i] = ch) - 1

RECURSIVE NumberValue(_)
NumberValue(str) ==
    IF str = <<>> THEN 0
    ELSE 10 * NumberValue(SubSeq(str, 1, Len(str) - 1)) + DigitValue(str[Len(str)])

\* int(node.extra_info.get('page_label', -1)): -1 without a label, the number
\* of a numeric label; int() raises on any other label
PageRaises(node) == node.page_label # None /\ ~IsNumber(node.page_label[1])

PageOf(node) ==
    IF node.page_label = None THEN -1 ELSE NumberValue(node.page_label[1])

\* a faulty NewItem: the Item is built for a fixed owner
NewItemFixedOwner(id, owner_id, conversation_id) ==
    [id |-> id, owner_id |-> "u1", conversation_id |-> conversation_id,
     active |-> TRUE]

\* Item(file_name=..., owner_id=owner_id, conversation_id=conversation_id, ...)
\* with the identifier the flush generates and the column default of active
NewItem(id, owner_id, conversation_id) ==
    [id |-> id, owner_id |-> owner_id, conversation_id |-> conversation_id,
     active |-> TRUE]

\* a faulty ItemId: the Item was not flushed, its identifier is not generated
ItemIdUnflushed(item) == 0

\* item.id, read after session.flush() generated it
ItemId(item) == item.id

\* Embedding(item_id=item.id, page=page, chunk_text=node.get_content(), ...);
\* idx stands for the generated identifier of the row
NewEmbedding(item_id, idx, node) ==
    [item_id |-> item_id, idx |-> idx, page |-> PageOf(node),
     chunk_text |-> node.text]

\* a faulty Flushed: the flush commits the row
FlushedCommitting(committed, row) == committed \cup {row}

\* the committed rows of a table after session.add(row); session.flush(): the
\* row is sent to the store inside the transaction, and not committed
Flushed(committed, row) == committed

\* a faulty NodesInserted: the loop leaves the last node out
NodesInsertedButLast(nodes) == SubSeq(nodes, 1, Len(nodes) - 1)

\* the nodes the loop of insert_document_with_embeddings inserts: all of them
NodesInserted(nodes) == nodes

AttIdle ==
    [name |-> "", kind |-> "none", pc |-> "idle", owner |-> "", conv |-> "",
     nodes |-> <<>>,
     k |-> 1, itemId |-> 0, pendItem |-> None, pendEmbs |-> {},
     sess |-> "none", session |-> "none", tx |-> "none", result |-> "none",
     failStage |-> "none", failK |-> 0, embFail |-> 0,
     verified |-> FALSE, ref |-> "", downloaded |-> FALSE,
     status |-> 0, reported |-> -1]

\* what upload_file does with the value insert_document_with_embeddings
\* returned: 500 without an item, else the response with "nodes": len(nodes)
AfterInsert(r, res) ==
    IF r.kind # "upload" THEN [r EXCEPT !.pc = "done", !.result = res]
    ELSE IF res = "absent"
    THEN [r EXCEPT !.pc = "done", !.result = res, !.status = 500]
    ELSE [r EXCEPT !.pc = "done", !.result = res, !.status = 200,
                   !.reported = Len(r.nodes)]

\* The except and finally clauses of insert_document_with_embeddings, and the
\* outer except: session.rollback() discards what the session flushed,
\* session.close(), and the call returns None.
InsertFailed(r, stage, k) ==
    AfterInsert([r EXCEPT !.pendItem = None, !.pendEmbs = {},
                          !.tx = IF r.tx = "committed" THEN "committed"
                                 ELSE "rolledback",
                          !.session = "closed",
                          !.failStage = stage, !.failK = k],
                "absent")

\* The body of insert_document_with_embeddings is entered: SessionLocal()
EnterInsert(r, owner_id, conversation_id, nodes) ==
    [r EXCEPT !.pc = "item", !.owner = owner_id, !.conv = conversation_id,
              !.nodes = nodes, !.sess = SessionLocal(r.name), !.session = "open"]

\* a caller passes the four arguments of the signature
insert_document_with_embeddings_call(a) ==
    /\ att[a].kind = "none"
    /\ \E p \in CallPairs, nodes \in NodeSeqs :
         att' = [att EXCEPT
                   ![a] = EnterInsert([att[a] EXCEPT !.kind = "direct"],
                                      p.owner, p.conv, nodes)]
    /\ UNCHANGED <<storeVars, nextId, boot, cv, usr, ef>>

\* item = Item(...); session.add(item); session.flush(); fail: the constructor,
\* the add or the flush raises
insert_document_with_embeddings_item(a) ==
    /\ att[a].pc = "item"
    /\ \E fail \in BOOLEAN :
         IF fail \/ "items" \notin tables
         THEN /\ att' = [att EXCEPT ![a] = InsertFailed(att[a], "item", 0)]
              /\ UNCHANGED <<items, nextId>>
         ELSE LET item == NewItem(nextId, att[a].owner, att[a].conv) IN
              /\ items' = Flushed(items, item)
              /\ nextId' = nextId + 1
              /\ att' = [att EXCEPT
                           ![a].pendItem = Some(item),
                           ![a].itemId = item.id,
                           ![a].tx = "active",
                           ![a].k = 1,
                           ![a].pc = IF NodesInserted(att[a].nodes) = <<>>
                                     THEN "commit" ELSE "emb"]
    /\ UNCHANGED <<tables, users, embeddings, boot, cv, usr, ef>>

\* one iteration of the loop: page, Embedding(...), session.add, session.flush
insert_document_with_embeddings_embedding(a) ==
    /\ att[a].pc = "emb"
    /\ LET todo == NodesInserted(att[a].nodes)
           node == todo[att[a].k]
       IN
       \E fail \in BOOLEAN :
         IF fail \/ PageRaises(node) \/ "embeddings" \notin tables
         THEN /\ att' = [att EXCEPT
                           ![a] = InsertFailed(att[a], "embedding", att[a].k)]
              /\ UNCHANGED embeddings
         ELSE LET row == NewEmbedding(ItemId(att[a].pendItem[1]), att[a].k, node) IN
              /\ embeddings' = Flushed(embeddings, row)
              /\ att' = [att EXCEPT
                           ![a].pendEmbs = @ \cup {row},
                           ![a].k = @ + 1,
                           ![a].pc = IF att[a].k = Len(todo)
                                     THEN "commit" ELSE "emb"]
    /\ UNCHANGED <<tables, users, items, nextId, boot, cv, usr, ef>>

\* session.commit(): the flushed rows are in the store, all at once
insert_document_with_embeddings_commit(a) ==
    /\ att[a].pc = "commit"
    /\ \E fail \in BOOLEAN :
         IF fail
         THEN /\ att' = [att EXCEPT ![a] = InsertFailed(att[a], "commit", 0)]
              /\ UNCHANGED <<items, embeddings>>
         ELSE /\ items' = items \cup {att[a].pendItem[1]}
              /\ embeddings' = embeddings \cup att[a].pendEmbs
              /\ att' = [att EXCEPT ![a].tx = "committed", ![a].pc = "log"]
    /\ UNCHANGED <<tables, users, nextId, boot, cv, usr, ef>>

\* self.logger.info(f"... {item.file_name} ..."); return item; session.close().
\* The commit expired the item's attributes, so reading file_name queries the
\* store again, which may fail: the call then returns None.
insert_document_with_embeddings_return(a) ==
    /\ att[a].pc = "log"
    /\ \E fail \in BOOLEAN :
         IF fail
         THEN att' = [att EXCEPT ![a] = InsertFailed(att[a], "log", 0)]
         ELSE att' = [att EXCEPT
                        ![a] = AfterInsert([att[a] EXCEPT !.session = "closed"],
                                           "item")]
    /\ UNCHANGED <<storeVars, nextId, boot, cv, usr, ef>>

--------------------------------------------------------------------------
(* upload_file *)

\* the positional arguments upload_file passes to
\* insert_document_with_embeddings: nodes, formatted_metadata
ArgsPassed == 2

\* the parameters of insert_document_with_embeddings without a default:
\* nodes, metadata, owner_id, conversation_id
ParamsRequired == 4

\* except Exception as e: raise HTTPException(status_code=500, ...): whatever
\* is raised inside the outer try of upload_file leaves it as a 500
Wrapped(status) == 500

Rejected(r, status) == [r EXCEPT !.pc = "done", !.status = status]

\* POST /api/v1/upload arrives with a validated token
upload_file_call(a) ==
    /\ att[a].kind = "none"
    /\ \E p \in CallPairs, v \in BOOLEAN, ref \in {"file", "folder", "invalid"} :
         att' = [att EXCEPT ![a].kind = "upload", ![a].pc = "auth",
                            ![a].owner = p.owner, ![a].conv = p.conv,
                            ![a].verified = v, ![a].ref = ref]
    /\ UNCHANGED <<storeVars, nextId, boot, cv, usr, ef>>

\* if not verified: raise HTTPException(status_code=403), outside the try
upload_file_verified(a) ==
    /\ att[a].pc = "auth"
    /\ att' = [att EXCEPT
                 ![a] = IF att[a].verified THEN [att[a] EXCEPT !.pc = "resolve"]
                        ELSE Rejected(att[a], 403)]
    /\ UNCHANGED <<storeVars, nextId, boot, cv, usr, ef>>

\* gclient.get_gdrive_id: no file id, or a folder: HTTPException(400), raised
\* inside the outer try
upload_file_get_gdrive_id(a) ==
    /\ att[a].pc = "resolve"
    /\ att' = [att EXCEPT
                 ![a] = IF att[a].ref = "file" THEN [att[a] EXCEPT !.pc = "download"]
                        ELSE Rejected(att[a], Wrapped(400))]
    /\ UNCHANGED <<storeVars, nextId, boot, cv, usr, ef>>

\* gclient.download_file; result['success']; result.get('files')
upload_file_download_file(a) ==
    /\ att[a].pc = "download"
    /\ \E ok \in BOOLEAN, metadata \in BOOLEAN :
         att' = [att EXCEPT
                   ![a] = IF ok /\ metadata
                          THEN [att[a] EXCEPT !.pc = "chunk", !.downloaded = ok]
                          ELSE Rejected([att[a] EXCEPT !.downloaded = ok],
                                        Wrapped(500))]
    /\ UNCHANGED <<storeVars, nextId, boot, cv, usr, ef>>

\* process_document: load_data and get_nodes_from_documents give the nodes, or
\* raise
process_document_load(a) ==
    /\ att[a].pc = "chunk"
    /\ \E fail \in BOOLEAN, nodes \in NodeSeqs :
         att' = [att EXCEPT
                   ![a] = IF fail THEN Rejected(att[a], Wrapped(500))
                          ELSE [att[a] EXCEPT !.nodes = nodes, !.k = 1,
                                              !.pc = "embed"]]
    /\ UNCHANGED <<storeVars, nextId, boot, cv, usr, ef>>

\* process_document: node.embedding = await aget_text_embedding(...) for the
\* next node; a failure of the provider fails the whole document
process_document_embed(a) ==
    /\ att[a].pc = "embed"
    /\ att[a].k <= Len(att[a].nodes)
    /\ \E fail \in BOOLEAN :
         att' = [att EXCEPT
                   ![a] = IF fail
                          THEN Rejected([att[a] EXCEPT !.embFail = att[a].k],
                                        Wrapped(500))
                          ELSE [att[a] EXCEPT !.k = @ + 1]]
    /\ UNCHANGED <<storeVars, nextId, boot, cv, usr, ef>>

\* metadata_handler, then db_service.insert_document_with_embeddings(nodes,
\* formatted_metadata): the call binds its arguments or raises TypeError, which
\* the except clauses of upload_file turn into a 500
upload_file_insert(a) ==
    /\ att[a].pc = "embed"
    /\ att[a].k > Len(att[a].nodes)
    /\ att' = [att EXCEPT
                 ![a] = IF ArgsPassed >= ParamsRequired
                        THEN EnterInsert(att[a], att[a].owner, att[a].conv,
                                         att[a].nodes)
                        ELSE Rejected([att[a] EXCEPT !.result = "raised",
                                                     !.failStage = "bind"],
                                      Wrapped(500))]
    /\ UNCHANGED <<storeVars, nextId, boot, cv, usr, ef>>

--------------------------------------------------------------------------
(* EmbeddingService: _chunk_text, embed_chunks, embed_file *)

\* the texts of the documents that are loaded
Texts == {"ab", "cd"}

\* the chunk texts the splitter produces
Pieces == {"a", "b"}

\* the chunk sequences the splitter may return, and the ones a caller may pass
\* to embed_chunks
ChunkSeqs == SeqsUpTo(Pieces, MaxChunks)

\* what aget_text_embedding does for one chunk: it raises, or it returns a
\* vector (List[float]), which may be empty
ProviderOutcomes ==
    {[ok |-> FALSE, vec |-> <<>>]}
      \cup {[ok |-> TRUE, vec |-> v] : v \in {<<>>, <<1>>, <<2>>}}

\* `if embedding:` : the truth value of a list, false for the empty one
Truthy(embedding) == embedding # <<>>

\* a faulty Appended: the chunk is appended whatever its call did
AppendedUnconditionally(results, chunk, out) ==
    Append(results, <<chunk, out.vec>>)

\* one iteration of the loop of embed_chunks: results.append((chunk,
\* embedding)) when the call returned a truthy embedding; when it raised, the
\* except clause logs and continues
Appended(results, chunk, out) ==
    IF out.ok /\ Truthy(out.vec) THEN Append(results, <<chunk, out.vec>>)
    ELSE results

\* a faulty ChunkFallback: no chunk when splitting fails
ChunkFallbackEmpty(text) == <<>>

\* return [text]: the full text as a single chunk when splitting fails
ChunkFallback(text) == <<text>>

EfIdle ==
    [kind |-> "none", pc |-> "idle", text |-> "", splitRaised |-> FALSE,
     split |-> <<>>, chunks |-> <<>>, i |-> 1, outs |-> <<>>, results |-> <<>>,
     ret |-> "none"]

\* await embed_chunks(chunks), called with a chunk sequence
embed_chunks_call ==
    /\ ef.kind = "none"
    /\ \E chunks \in ChunkSeqs :
         ef' = [ef EXCEPT !.kind = "embed_chunks", !.pc = "embed",
                          !.chunks = chunks]
    /\ UNCHANGED <<storeVars, nextId, boot, cv, usr, att>>

\* await embed_file(file_path): doc = self._load_document(file_path);
\* if not doc: return None
embed_file_call ==
    /\ ef.kind = "none"
    /\ \/ ef' = [ef EXCEPT !.kind = "embed_file", !.pc = "done", !.ret = "None"]
       \/ \E text \in Texts :
            ef' = [ef EXCEPT !.kind = "embed_file", !.pc = "split",
                             !.text = text]
    /\ UNCHANGED <<storeVars, nextId, boot, cv, usr, att>>

\* chunks = self._chunk_text(doc.text): try: return
\* self.text_splitter.split_text(text); except Exception: return [text]
_chunk_text ==
    /\ ef.pc = "split"
    /\ \/ ef' = [ef EXCEPT !.splitRaised = TRUE,
                            !.chunks = ChunkFallback(ef.text), !.pc = "embed"]
       \/ \E split \in ChunkSeqs :
            ef' = [ef EXCEPT !.split = split, !.chunks = split, !.pc = "embed"]
    /\ UNCHANGED <<storeVars, nextId, boot, cv, usr, att>>

\* one iteration of `for chunk in chunks` in embed_chunks
embed_chunks_chunk ==
    /\ ef.pc = "embed"
    /\ ef.i <= Len(ef.chunks)
    /\ \E out \in ProviderOutcomes :
         ef' = [ef EXCEPT !.outs = Append(@, out),
                          !.results = Appended(@, ef.chunks[ef.i], out),
                          !.i = @ + 1]
    /\ UNCHANGED <<storeVars, nextId, boot, cv, usr, att>>

\* return results, which embed_file returns as it is
embed_chunks_return ==
    /\ ef.pc = "embed"
    /\ ef.i > Len(ef.chunks)
    /\ ef' = [ef EXCEPT !.pc = "done", !.ret = "results"]
    /\ UNCHANGED <<storeVars, nextId, boot, cv, usr, att>>

--------------------------------------------------------------------------
(* The specification of ingestion *)

Init ==
    /\ tables = MetadataTables
    /\ users = {}
    /\ items = {}
    /\ embeddings = {}
    /\ nextId = 1
    /\ boot = [s \in Services |-> BootIdle]
    /\ cv = CvIdle
    /\ usr = [c \in Callers |-> UsrIdle]
    /\ att = [a \in Attempts |-> [AttIdle EXCEPT !.name = a]]
    /\ ef = EfIdle

Next ==
    \/ \E a \in Attempts : insert_document_with_embeddings_call(a)
    \/ \E a \in Attempts : insert_document_with_embeddings_item(a)
    \/ \E a \in Attempts : insert_document_with_embeddings_embedding(a)
    \/ \E a \in Attempts : insert_document_with_embeddings_commit(a)
    \/ \E a \in Attempts : insert_document_with_embeddings_return(a)
    \/ \E a \in Attempts : upload_file_call(a)
    \/ \E a \in Attempts : upload_file_verified(a)
    \/ \E a \in Attempts : upload_file_get_gdrive_id(a)
    \/ \E a \in Attempts : upload_file_download_file(a)
    \/ \E a \in Attempts : process_document_load(a)
    \/ \E a \in Attempts : process_document_embed(a)
    \/ \E a \in Attempts : upload_file_insert(a)

Spec == Init /\ [][Next]_vars

--------------------------------------------------------------------------
(* The specification of the identity resolver *)

\* every table exists: the state after a constructor completed on a new store
InitUser ==
    /\ tables = MetadataTables
    /\ users = {}
    /\ items = {}
    /\ embeddings = {}
    /\ nextId = 1
    /\ boot = [s \in Services |-> BootIdle]
    /\ cv = CvIdle
    /\ usr = [c \in Callers |-> UsrIdle]
    /\ att = [a \in Attempts |-> [AttIdle EXCEPT !.name = a]]
    /\ ef = EfIdle

NextUser ==
    \/ \E c \in Callers : get_or_create_user_call(c)
    \/ \E c \in Callers : get_or_create_user_query(c)
    \/ \E c \in Callers : get_or_create_user_create(c)

SpecUser == InitUser /\ [][NextUser]_vars

--------------------------------------------------------------------------
(* The specification of the calls that open a session: one call of *)
(* insert_document_with_embeddings and the calls of get_or_create_user of *)
(* two callers, interleaved on one service *)

InitSession ==
    /\ tables = MetadataTables
    /\ users = {}
    /\ items = {}
    /\ embeddings = {}
    /\ nextId = 1
    /\ boot = [s \in Services |-> BootIdle]
    /\ cv = CvIdle
    /\ usr = [c \in Callers |-> UsrIdle]
    /\ att = [a \in Attempts |->
                IF a = "a1" THEN [AttIdle EXCEPT !.name = a]
                ELSE [AttIdle EXCEPT !.name = a, !.kind = "off"]]
    /\ ef = EfIdle

NextSession ==
    \/ \E a \in Attempts : insert_document_with_embeddings_call(a)
    \/ \E a \in Attempts : insert_document_with_embeddings_item(a)
    \/ \E a \in Attempts : insert_document_with_embeddings_embedding(a)
    \/ \E a \in Attempts : insert_document_with_embeddings_commit(a)
    \/ \E a \in Attempts : insert_document_with_embeddings_return(a)
    \/ \E c \in Callers : get_or_create_user_call(c)
    \/ \E c \in Callers : get_or_create_user_query(c)
    \/ \E c \in Callers : get_or_create_user_create(c)

SpecSession == InitSession /\ [][NextSession]_vars

--------------------------------------------------------------------------
(* The specification of the schema bootstrap *)

\* the rows an earlier run of the service committed: a User, an Item of that
\* user and an Embedding of that Item
EarlierRows ==
    <<{[id |-> 1, email |-> <<"b", "o">>, display_name |-> <<"b", "o">>,
        active |-> TRUE]},
      {NewItem(2, "u1", "k1")},
      {NewEmbedding(2, 1, [text |-> "t1", page_label |-> None])}>>

\* the store the first constructor finds: any part of the schema without
\* rows, or the whole schema, with or without the rows of an earlier run
InitBoot ==
    /\ tables \in SUBSET MetadataTables
    /\ \E rows \in {<<{}, {}, {}>>} \cup
                    (IF tables = MetadataTables THEN {EarlierRows} ELSE {}) :
          /\ users = rows[1]
          /\ items = rows[2]
          /\ embeddings = rows[3]
          /\ nextId = IF rows = EarlierRows THEN 3 ELSE 1
    /\ boot = [s \in Services |-> BootIdle]
    /\ cv = CvIdle
    /\ usr = [c \in Callers |-> UsrIdle]
    /\ att = [a \in Attempts |-> [AttIdle EXCEPT !.name = a]]
    /\ ef = EfIdle

NextBoot ==
    \/ \E s \in Services : DatabaseService_call(s)
    \/ \E s \in Services : DatabaseService_create_extension(s)
    \/ \E s \in Services : DatabaseService_verify_tables(s)
    \/ \E s \in Services : DatabaseService_drop_all(s)
    \/ \E s \in Services : DatabaseService_create_table(s)
    \/ verify_tables_call
    \/ verify_tables_lookup

SpecBoot == InitBoot /\ [][NextBoot]_vars

--------------------------------------------------------------------------
(* The specification of overlapping constructions: two constructors run *)
(* interleaved on one store, and a caller creates users through a service *)
(* whose construction completed *)

InitOverlap ==
    /\ tables \in SUBSET MetadataTables
    /\ users = {}
    /\ items = {}
    /\ embeddings = {}
    /\ nextId = 1
    /\ boot = [s \in Services |-> BootIdle]
    /\ cv = CvIdle
    /\ usr = [c \in Callers |-> IF c = "c1" THEN UsrIdle
                                ELSE [UsrIdle EXCEPT !.pc = "off"]]
    /\ att = [a \in Attempts |-> [AttIdle EXCEPT !.name = a]]
    /\ ef = EfIdle

NextOverlap ==
    \/ \E s \in Services : get_db(s)
    \/ \E s \in Services : DatabaseService_create_extension(s)
    \/ \E s \in Services : DatabaseService_verify_tables(s)
    \/ \E s \in Services : DatabaseService_drop_all(s)
    \/ \E s \in Services : DatabaseService_create_table(s)
    \/ \E c \in Callers :
          /\ \E s \in Services : boot[s].session
          /\ get_or_create_user_call(c)
    \/ \E c \in Callers : get_or_create_user_query(c)
    \/ \E c \in Callers : get_or_create_user_create(c)

SpecOverlap == InitOverlap /\ [][NextOverlap]_vars

--------------------------------------------------------------------------
(* The specification of the embedding service *)

InitEmbed ==
    /\ tables = MetadataTables
    /\ users = {}
    /\ items = {}
    /\ embeddings = {}
    /\ nextId = 1
    /\ boot = [s \in Services |-> BootIdle]
    /\ cv = CvIdle
    /\ usr = [c \in Callers |-> UsrIdle]
    /\ att = [a \in Attempts |-> [AttIdle EXCEPT !.name = a]]
    /\ ef = EfIdle

NextEmbed ==
    \/ embed_chunks_call
    \/ embed_file_call
    \/ _chunk_text
    \/ embed_chunks_chunk
    \/ embed_chunks_return

SpecEmbed == InitEmbed /\ [][NextEmbed]_vars

--------------------------------------------------------------------------
(* Claims about ingestion (checked under Spec) *)

\* the committed Embedding rows of the Item of attempt a
StoredFor(a) == {e \in embeddings : e.item_id = att[a].itemId}

\* the committed store holds the Item of attempt a and one Embedding per node
StoredWhole(a) ==
    /\ \E i \in items : i.id = att[a].itemId
    /\ Cardinality(StoredFor(a)) = Len(att[a].nodes)

\* C1: after an attempt failed at its Item insert or at its k-th Embedding
\* insert (any k), or while it is still uncommitted, the committed store holds
\* neither its Item nor any of its Embeddings; every committed row belongs to
\* an attempt that committed, and the rows of every attempt that committed
\* are all there.
Atomicity ==
    /\ \A a \in Attempts :
         (att[a].tx \in {"active", "rolledback"}
            \/ (att[a].result = "absent"
                  /\ att[a].failStage \in {"item", "embedding"})) =>
             /\ ~\E i \in items : i.id = att[a].itemId
             /\ StoredFor(a) = {}
    /\ \A i \in items :
         \E b \in Attempts : att[b].tx = "committed" /\ att[b].itemId = i.id
    /\ \A e \in embeddings :
         \E b \in Attempts : att[b].tx = "committed" /\ att[b].itemId = e.item_id
    /\ \A b \in Attempts : att[b].tx = "committed" => StoredWhole(b)

\* C1 witness: one attempt failed at its second Embedding insert, after its
\* Item and its first Embedding were flushed, and another attempt's rows are
\* committed
AtomicityWitness ==
    \E a, b \in Attempts :
        /\ att[a].result = "absent"
        /\ att[a].failStage = "embedding" /\ att[a].failK = 2
        /\ att[a].itemId # 0
        /\ att[b].tx = "committed" /\ Len(att[b].nodes) = 2
        /\ att[b].itemId < att[a].itemId

\* C2: every call of insert_document_with_embeddings that upload_file makes
\* returns the Item or returns None: none raises.
NoExceptionSurfaces ==
    \A a \in Attempts :
        att[a].kind = "upload" => att[a].result \in {"none", "item", "absent"}

FolderRejectedAsClientFault ==
    \A a \in Attempts :
        (att[a].kind = "upload" /\ att[a].verified /\ att[a].ref = "folder"
           /\ att[a].pc = "done") =>
            /\ att[a].status \in 400..499
            /\ ~att[a].downloaded
            /\ att[a].itemId = 0

\* C12: an upload whose conversation does not exist or does not belong to
\* its owner never starts a download, chunking, embedding or a store write,
\* and every committed Item has a conversation that exists and belongs to the
\* Item's owner.
ResolutionErrorsRejectedFirst ==
    /\ \A a \in Attempts :
         (att[a].kind = "upload" /\ ~ConversationOf(att[a].owner, att[a].conv)) =>
             /\ att[a].pc \notin {"download", "chunk", "embed"}
             /\ ~att[a].downloaded
             /\ att[a].itemId = 0
    /\ \A i \in items : ConversationOf(i.owner_id, i.conversation_id)

\* C13: an upload in which the provider embedded the first chunk and failed
\* for a later one ends as a success, with its Item committed and one
\* Embedding row per chunk that was embedded.
PartialEmbeddingFailureSucceeds ==
    \A a \in Attempts :
        (att[a].kind = "upload" /\ att[a].embFail >= 2 /\ att[a].pc = "done") =>
            /\ att[a].status = 200
            /\ \E i \in items : i.id = att[a].itemId
            /\ Cardinality(StoredFor(a)) \in 1..(Len(att[a].nodes) - 1)

Phase(r) ==
    IF r.kind = "none" THEN "NONE"
    ELSE IF r.pc = "done"
    THEN (IF r.result = "item" THEN "PERSISTED" ELSE "FAILED")
    ELSE IF r.pc \in {"auth", "resolve", "download", "chunk"} THEN "START"
    ELSE IF r.pc = "embed"
    THEN (IF r.k > Len(r.nodes) /\ Len(r.nodes) > 0 THEN "EMBEDDED" ELSE "CHUNKED")
    ELSE IF r.pc = "log" THEN "PERSISTED"
    ELSE "EMBEDDED"

\* the transitions of the attempt state machine; a direct call of
\* insert_document_with_embeddings begins with embedded nodes
PhaseSteps ==
    {<<"NONE", "START">>, <<"NONE", "EMBEDDED">>, <<"START", "CHUNKED">>,
     <<"CHUNKED", "EMBEDDED">>, <<"EMBEDDED", "PERSISTED">>,
     <<"START", "FAILED">>, <<"CHUNKED", "FAILED">>, <<"EMBEDDED", "FAILED">>}

InsertOrdering ==
    \A a \in Attempts :
        /\ att[a].pc = "emb" =>
              /\ att[a].pendItem # None
              /\ att[a].tx = "active"
        /\ \A e \in att[a].pendEmbs :
              /\ att[a].pendItem # None
              /\ e.item_id = att[a].pendItem[1].id
              /\ e.item_id = att[a].itemId
              /\ e.item_id # 0

\* C18 witness: an attempt flushed its Item and its first Embedding and is
\* about to build the second one
InsertOrderingWitness ==
    \E a \in Attempts :
        /\ att[a].pc = "emb"
        /\ att[a].k = 2
        /\ Cardinality(att[a].pendEmbs) = 1
        /\ att[a].pendItem # None

--------------------------------------------------------------------------
(* Claims about sessions (checked under SpecSession) *)

\* the sessions of the calls that opened one
SessionsInUse ==
    {att[a].sess : a \in {x \in Attempts : att[x].session # "none"}}
      \cup {usr[c].sess : c \in {x \in Callers : usr[x].session # "none"}}

\* C17: every call of insert_document_with_embeddings and of
\* get_or_create_user works on a session of its own, which is not the
\* service's long-lived session and not the session of another call, and when
\* the call has returned or raised, its transaction is committed or rolled
\* back and its session is closed.
ScopedSession ==
    /\ "self.session" \notin SessionsInUse
    /\ \A a, b \in Attempts :
         (a # b /\ att[a].session # "none" /\ att[b].session # "none") =>
             att[a].sess # att[b].sess
    /\ \A c, d \in Callers :
         (c # d /\ usr[c].session # "none" /\ usr[d].session # "none") =>
             usr[c].sess # usr[d].sess
    /\ \A a \in Attempts, c \in Callers :
         (att[a].session # "none" /\ usr[c].session # "none") =>
             att[a].sess # usr[c].sess
    /\ \A a \in Attempts :
         (att[a].session # "none" /\ att[a].pc = "done") =>
             /\ att[a].session = "closed"
             /\ att[a].tx \in {"committed", "rolledback"}
    /\ \A c \in Callers :
         usr[c].pc \in {"returned", "raised"} =>
             /\ usr[c].session = "closed"
             /\ usr[c].tx \in {"committed", "rolledback"}

\* C17 witness: a call of insert_document_with_embeddings swallowed the
\* failure of its second Embedding insert and returned None, a call of
\* get_or_create_user returned the User it created and another one raised
ScopedSessionWitness ==
    /\ \E a \in Attempts :
          /\ att[a].result = "absent" /\ att[a].failStage = "embedding"
          /\ att[a].failK = 2
          /\ att[a].session = "closed" /\ att[a].tx = "rolledback"
    /\ \E c, d \in Callers :
          /\ usr[c].pc = "returned" /\ usr[c].tx = "committed"
          /\ usr[c].session = "closed"
          /\ usr[d].pc = "raised" /\ usr[d].session = "closed"

--------------------------------------------------------------------------
(* Claims about the embedding service (checked under SpecEmbed) *)

\* the chunks of the call paired with what the provider did for each
Calls == [i \in 1..Len(ef.outs) |-> <<ef.chunks[i], ef.outs[i]>>]

\* the (chunk, vector) pairs of the calls in c, in their order
Paired(c) == [i \in 1..Len(c) |-> <<c[i][1], c[i][2].vec>>]

CallSucceeded(p) == p[2].ok

CallGaveVector(p) == p[2].ok /\ p[2].vec # <<>>

\* C15 as stated: embed_chunks returns, and its result is the sequence of
\* the chunks whose provider call succeeded, in source order, each paired
\* with the vector returned for it.
FailureIsolationAsStated ==
    (ef.pc = "done" /\ ef.ret # "None") =>
        /\ ef.ret = "results"
        /\ ef.results = Paired(SelectSeq(Calls, CallSucceeded))

\* C15: embed_chunks returns, and its result is the sequence of the chunks
\* whose provider call returned a non-empty vector, in source order, each
\* paired with that vector; at every point of the loop the result holds
\* those pairs of the chunks handled so far.
FailureIsolation ==
    /\ ef.results = Paired(SelectSeq(Calls, CallGaveVector))
    /\ Len(ef.outs) = ef.i - 1
    /\ (ef.pc = "done" /\ ef.ret # "None") =>
          /\ ef.ret = "results"
          /\ Len(ef.outs) = Len(ef.chunks)

\* C15 witness: embed_chunks returned after the provider raised for the first
\* of two chunks and returned a vector for the second
FailureIsolationWitness ==
    /\ ef.pc = "done" /\ ef.ret = "results"
    /\ Len(ef.chunks) = 2
    /\ ~ef.outs[1].ok
    /\ ef.outs[2].ok /\ ef.outs[2].vec # <<>>
    /\ ef.results = <<<<ef.chunks[2], ef.outs[2].vec>>>>

\* C19: _chunk_text returns; when the splitter raised, its result is the
\* one-chunk sequence of the original text, otherwise it is the sequence the
\* splitter returned.
ChunkerFallback ==
    (ef.kind = "embed_file" /\ ef.pc \in {"embed", "done"} /\ ef.ret # "None") =>
        ef.chunks = IF ef.splitRaised THEN <<ef.text>> ELSE ef.split

\* C19 witness: the splitter raised, and the whole text was embedded as the
\* single chunk
ChunkerFallbackWitness ==
    /\ ef.kind = "embed_file" /\ ef.splitRaised
    /\ ef.pc = "done"
    /\ ef.chunks = <<ef.text>>
    /\ Len(ef.results) = 1 /\ ef.results[1][1] = ef.text

--------------------------------------------------------------------------
(* Claims about the schema bootstrap (checked under SpecBoot) *)

\* the five tables the service needs, as the specification names them
FiveTables == {"users", "conversations", "items", "embeddings", "messages"}

\* the order of creation the specification states
DependencyOrder == <<"users", "conversations", "items", "embeddings", "messages">>

IsPrefix(p, q) == Len(p) <= Len(q) /\ \A i \in 1..Len(p) : p[i] = q[i]

\* every existing table's referenced tables exist
ParentClosed(tbls) == \A t \in tbls : Parents(t) \subseteq tbls

\* C7: a constructor that completes (a session exists) completed on a
\* verification that returned true, and at its completion all five tables
\* exist; after a bootstrap it has created all five; a constructor that raised
\* (the second verification failed, or a creation failed) has no session.
StartupPostcondition ==
    /\ [](\A s \in Services :
            /\ boot[s].session <=> boot[s].pc = "ready"
            /\ boot[s].pc = "ready" => boot[s].lastVerify = "true"
            /\ (boot[s].pc = "ready" /\ boot[s].dropped) =>
                   boot[s].created = DependencyOrder
            /\ boot[s].pc = "raised" => ~boot[s].session)
    /\ [][\A s \in Services :
            (boot[s].pc # "ready" /\ boot'[s].pc = "ready") =>
                FiveTables \subseteq tables']_vars

\* C7 witness: one constructor completed after a bootstrap, another raised
\* because the verification after its bootstrap failed
StartupPostconditionWitness ==
    \E s, o \in Services :
        /\ boot[s].pc = "ready" /\ boot[s].dropped /\ boot[s].session
        /\ boot[o].pc = "raised" /\ boot[o].created = DependencyOrder
        /\ boot[o].lastVerify = "false"

\* C8: a constructor creates tables only after it dropped all of them, which it
\* does only after a verification that returned false; it creates them in the
\* order users, conversations, items, embeddings, messages; and while it
\* creates, the catalog holds exactly the tables it created so far, each with
\* its referenced tables.
BootstrapOrdering ==
    \A s \in Services :
        /\ boot[s].created # <<>> => boot[s].dropped
        /\ boot[s].pc = "drop" => boot[s].lastVerify = "false" /\ ~boot[s].dropped
        /\ IsPrefix(boot[s].created, DependencyOrder)
        /\ boot[s].pc = "create" =>
               /\ boot[s].dropped
               /\ tables = Range(boot[s].created)
               /\ ParentClosed(tables)

\* C8 witness: in the middle of a bootstrap, three tables created
BootstrapOrderingWitness ==
    \E s \in Services :
        /\ boot[s].pc = "create"
        /\ boot[s].dropped
        /\ boot[s].created = <<"users", "conversations", "items">>
        /\ tables = {"users", "conversations", "items"}

\* C9: a verify_tables call during which no one writes the store returns true
\* exactly when all five tables are in the catalog and no lookup failed, and
\* false otherwise; it returns a boolean in every case.
VerifyExactlyAllPresent ==
    /\ cv.r1 \in {"none", "true", "false"}
    /\ \A s \in Services : boot[s].lastVerify \in {"none", "true", "false"}
    /\ (cv.pc = "call2" /\ cv.vi = 1 /\ ~cv.wrote) =>
           (cv.r1 = "true" <=> (FiveTables \subseteq cv.before /\ ~cv.qf1))
    /\ \A s \in Services :
           /\ boot[s].pc = "drop" =>
                  (boot[s].lastVerify = "false"
                     /\ (~(FiveTables \subseteq tables) \/ boot[s].qfailed))
           /\ (boot[s].pc = "verify2" /\ ~boot[s].dropped) =>
                  (FiveTables \subseteq tables /\ ~boot[s].qfailed)

\* C9 witness: a call returned false with exactly one table missing and no
\* failed lookup
VerifyExactlyAllPresentWitness ==
    /\ cv.pc = "call2" /\ cv.vi = 1 /\ ~cv.wrote
    /\ cv.r1 = "false" /\ ~cv.qf1
    /\ cv.before = FiveTables \ {"messages"}

NonDestructiveRestart ==
    \A s \in Services :
        (boot[s].pc # "idle" /\ FiveTables \subseteq boot[s].before) =>
            /\ ~boot[s].dropped
            /\ boot[s].created = <<>>
            /\ Constructing(s) =>
                  /\ boot[s].rowsBefore[1] \subseteq users
                  /\ boot[s].rowsBefore[2] \subseteq items
                  /\ boot[s].rowsBefore[3] \subseteq embeddings

--------------------------------------------------------------------------
(* Claims about overlapping constructions (checked under SpecOverlap) *)

\* a construction completed: the service has its session
Completed(b) == \E o \in Services : b[o].session

\* C21: once one construction has completed, no step of another construction
\* drops the tables and no committed User row is removed, and a construction
\* that completes leaves all five tables present.
ConcurrentBootstrapSafety ==
    [][/\ Completed(boot) =>
             /\ \A s \in Services : boot'[s].dropped => boot[s].dropped
             /\ FiveTables \subseteq tables => FiveTables \subseteq tables'
             /\ users \subseteq users'
       /\ \A s \in Services :
             (boot'[s].session /\ ~boot[s].session) =>
                 FiveTables \subseteq tables']_vars


UserDone(c) == usr[c].pc \in {"returned", "raised"}

RowsOf(e) == {u \in users : u.email = e}

\* C5: no two User rows share an email; and once two calls with the same owner
\* key are over, in whatever order their lookups and inserts ran, exactly one
\* User row has that email, provided the store did not fail in both of them.
UserUniqueness ==
    /\ \A e \in Emails : Cardinality(RowsOf(e)) <= 1
    /\ \A c, d \in Callers :
         (/\ c # d
          /\ UserDone(c) /\ UserDone(d)
          /\ usr[c].email = usr[d].email
          /\ ~(usr[c].storeFailed /\ usr[d].storeFailed)) =>
             Cardinality(RowsOf(usr[c].email)) = 1

\* C5 witness: both calls looked the key up before either inserted, and both
\* are over
UserUniquenessWitness ==
    \E c, d \in Callers :
        /\ c # d
        /\ usr[c].email = usr[d].email
        /\ usr[c].pc = "returned" /\ usr[d].pc = "raised"
        /\ ~usr[c].storeFailed /\ ~usr[d].storeFailed
        /\ Cardinality(RowsOf(usr[c].email)) = 1

\* C6: when two calls with the same owner key are over and the store failed in
\* neither, both returned the User of that key, and that User has the default
\* display name (the key up to its '@') when neither call supplied a name.
ResolverIdempotent ==
    \A c, d \in Callers :
        (/\ c # d
         /\ UserDone(c) /\ UserDone(d)
         /\ usr[c].email = usr[d].email
         /\ ~usr[c].storeFailed /\ ~usr[d].storeFailed) =>
            /\ usr[c].pc = "returned"
            /\ usr[c].result # None
            /\ usr[c].result[1].email = usr[c].email
            /\ (usr[c].display_name = None /\ usr[d].display_name = None) =>
                   usr[c].result[1].display_name = LocalPart(usr[c].email)

====
